---- MODULE Spec2Model ----
(***************************************************************************)
(* A state-machine model of src/ui_wrapper.ts: the process-wide navigation *)
(* stack and the three callback wrappers (CallbackActionFormData,          *)
(* CallbackMessageFormData, CallbackModalFormData) around the host's form  *)
(* API.  The host form is modelled as the log of builder calls it has      *)
(* received; a pending show is the promise returned by form.show(player).  *)
(* Scalars handed through the wrapper (submitted values, defaults, icon    *)
(* paths) are opaque to it and are modelled as strings.                    *)
(***************************************************************************)
EXTENDS Integers, Sequences, FiniteSets, TLC

VARIABLES
    navigationStack,   \* ui_wrapper.ts:4
    wrapper,           \* which wrapper class has been constructed ("none" before)
    form,              \* this.form: the host form, as the log of calls it received
    callbacks,         \* this.callbacks
    formConstruction,  \* CallbackModalFormData.formConstruction
    submitCallback,    \* CallbackModalFormData.submitCallback
    pending,           \* unresolved promises of form.show(player)
    original,          \* history: the builder calls made by the caller, as passed
    attempts,          \* history: the responses the host has resolved with
    invoked,           \* history: every callback invocation, in order
    shows              \* history: number of host form.show calls so far

vars == <<navigationStack, wrapper, form, callbacks, formConstruction,
          submitCallback, pending, original, attempts, invoked, shows>>

----------------------------------------------------------------------------
(* Bounds of the exploration *)

\* builder calls made on one wrapper
MaxCalls == 3
\* input-type controls added to one modal form
MaxInputs == 2
\* responses the host resolves for one wrapper
MaxAttempts == 2

----------------------------------------------------------------------------
(* Inputs supplied by the caller and by the host *)

Players == {"p1", "p2"}
Undefined == "undefined"

Text(s) == [text |-> s]

NavCallbacks == {"showMain"}
ButtonCallbacks == {Undefined, "cbA", "cbB"}
SubmitCallbacks == {Undefined, "onSubmit"}

\* The validation callbacks of the README example (a text field that wants a
\* number between 1 and 10, a toggle that must stay off), as functions of the
\* submitted value.
Correct == [type |-> "ModalDataCorrect"]
Error(msg) == [type |-> "ModalDataError", errorMessage |-> msg]

\* A default callback that rejects every value.
RunCallbackDefaultRejects(cb, value) ==
    CASE cb = "default"   -> Error("invalid")
      [] cb = "range"     -> IF value = "" THEN Error("must provide a number")
                             ELSE IF value = "0" THEN Error("must be above one")
                             ELSE Correct
      [] cb = "mustBeOff" -> IF value = "true" THEN Error("NO!") ELSE Correct

RunCallback(cb, value) ==
    CASE cb = "default"   -> Correct
      [] cb = "range"     -> IF value = "" THEN Error("must provide a number")
                             ELSE IF value = "0" THEN Error("must be above one")
                             ELSE Correct
      [] cb = "mustBeOff" -> IF value = "true" THEN Error("NO!") ELSE Correct

\* What the caller may pass as validation callback, and what the host may
\* return as value, per kind of control.
CallbacksOf(kind) ==
    CASE kind = "textField" -> {Undefined, "range"}
      [] kind = "toggle"    -> {Undefined, "mustBeOff"}
      [] kind = "dropdown"  -> {Undefined}
      [] kind = "slider"    -> {Undefined}

ValuesOf(kind) ==
    CASE kind = "textField" -> {"", "5"}
      [] kind = "toggle"    -> {"true", "false"}
      [] kind = "dropdown"  -> {"1"}
      [] kind = "slider"    -> {"3"}

\* The arguments the caller passes for a control of each kind (label first);
\* the label names the kind and the position n of the call, so that no two
\* controls of a form share a label.
Label(kind, n) == [text |-> kind, at |-> n]

ArgsOf(kind, n) ==
    CASE kind = "textField" -> <<Label(kind, n), Text("ex: 3"), Undefined>>
      [] kind = "toggle"    -> <<Label(kind, n), "false">>
      [] kind = "dropdown"  -> <<Label(kind, n), <<Text("a"), Text("b")>>, "0">>
      [] kind = "slider"    -> <<Label(kind, n), "1", "10", "1", Undefined>>

InputKinds == {"textField", "toggle", "dropdown", "slider"}

----------------------------------------------------------------------------
(* CallbackModalFormData: the object's fields as a record, so that a builder *)
(* operation is one operator used both by the caller and by the replay.      *)

NewModalFormData == <<>>

This == [form |-> form, formConstruction |-> formConstruction,
         callbacks |-> callbacks, submitCallback |-> submitCallback]

HostCall(op, args) == [op |-> op, args |-> args]

\* callback || (() => new ModalDataCorrect())
OrDefault(cb) == IF cb = Undefined THEN "default" ELSE cb

\* callback || (() => {})
OrNoop(cb) == IF cb = Undefined THEN "noop" ELSE cb

Record(kind, data, cb, isInput) ==
    [kind |-> kind, data |-> data, callback |-> cb, isInputField |-> isInput]

\* title(titleText)
Title(this, data) ==
    [this EXCEPT !.form = Append(@, HostCall("title", <<data[1]>>)),
                 !.formConstruction =
                     Append(@, Record("title", <<data[1]>>, Undefined, FALSE))]

\* An input builder that puts its callback at the front of the list.
InputControlUnshift(this, kind, data, cb) ==
    [this EXCEPT !.callbacks = <<[callback |-> OrDefault(cb)]>> \o @,
                 !.form = Append(@, HostCall(kind, data)),
                 !.formConstruction = Append(@, Record(kind, data, cb, TRUE))]

\* textField / toggle / dropdown / slider: push the callback, add the control
\* to the host form, log the call.
InputControl(this, kind, data, cb) ==
    [this EXCEPT !.callbacks = Append(@, [callback |-> OrDefault(cb)]),
                 !.form = Append(@, HostCall(kind, data)),
                 !.formConstruction = Append(@, Record(kind, data, cb, TRUE))]

\* submitButton(text, callback)
SubmitButton(this, data, cb) ==
    [this EXCEPT !.form = Append(@, HostCall("submitButton", <<data[1]>>)),
                 !.submitCallback = OrNoop(cb),
                 !.formConstruction =
                     Append(@, Record("submitButton", <<data[1]>>, cb, FALSE))]

\* A submitButton closure that replays the text and not the callback.
ReplayDropsSubmitCallback(this, field) ==
    CASE field.kind = "title"        -> Title(this, field.data)
      [] field.kind = "submitButton" -> SubmitButton(this, field.data, Undefined)
      [] OTHER -> InputControl(this, field.kind, field.data, field.callback)

\* field.callback(field.data): the closure stored with a record re-invokes the
\* builder operation that made it, with the callback it captured.
Replay(this, field) ==
    CASE field.kind = "title"        -> Title(this, field.data)
      [] field.kind = "submitButton" -> SubmitButton(this, field.data, field.callback)
      [] OTHER -> InputControl(this, field.kind, field.data, field.callback)

\* The records flagged as input fields, as positions in the log:
\* this.formConstruction.filter(field => field.isInputField)
InputFields(fc) ==
    SelectSeq([j \in 1..Len(fc) |-> j], LAMBDA j : fc[j].isInputField)

\* The composite label of a field that failed: the label, a newline, the
\* error message as translatable text.
ErrorLabel(label, errorMessage) ==
    [rawtext |-> <<label, Text("\n"), [translate |-> errorMessage]>>]

\* The label the composite is built on: data[0] of the i-th input record as
\* it stands in the log when the error is handled.
BaseLabel(this, i) ==
    this.formConstruction[InputFields(this.formConstruction)[i]].data[1]

\* A label mutation that indexes the whole log, not the input records.
SetErrorLabelUnfiltered(this, i, errorMessage) ==
    [this EXCEPT !.formConstruction[i].data[1] =
                     ErrorLabel(this.formConstruction[i].data[1], errorMessage)]

\* this.formConstruction.filter(...)[i].data[0] = { rawtext: [label, ...] }
SetErrorLabel(this, i, errorMessage) ==
    LET k == InputFields(this.formConstruction)[i]
    IN  [this EXCEPT !.formConstruction[k].data[1] =
                         ErrorLabel(BaseLabel(this, i), errorMessage)]

\* One turn of the loop over response.formValues.
ValidateValue(acc, values, i) ==
    LET cb == acc.this.callbacks[i].callback
        fieldReturnState == RunCallback(cb, values[i])
        call == [callback |-> cb, value |-> values[i]]
    IN  IF fieldReturnState.type = "ModalDataError"
        THEN [this |-> SetErrorLabel(acc.this, i, fieldReturnState.errorMessage),
              hasError |-> TRUE,
              calls |-> Append(acc.calls, call)]
        ELSE [acc EXCEPT !.calls = Append(@, call)]

RECURSIVE ValidateFrom(_, _, _)
ValidateFrom(acc, values, i) ==
    IF i > Len(values) THEN acc
    ELSE ValidateFrom(ValidateValue(acc, values, i), values, i + 1)

\* A loop that starts at the second value.
ValidateAllFromSecond(this, values) ==
    ValidateFrom([this |-> this, hasError |-> FALSE, calls |-> <<>>], values, 2)

\* for (var i = 0; i < response.formValues.length; i++) { ... }
ValidateAll(this, values) ==
    ValidateFrom([this |-> this, hasError |-> FALSE, calls |-> <<>>], values, 1)

RECURSIVE ReplayFrom(_, _, _)
ReplayFrom(this, copy, k) ==
    IF k > Len(copy) THEN this
    ELSE ReplayFrom(Replay(this, copy[k]), copy, k + 1)

\* A rebuild that replays the log without resetting it.
RebuildNoReset(this) ==
    ReplayFrom([this EXCEPT !.form = NewModalFormData], this.formConstruction, 1)

\* The branch taken when a field returned an error: a new host form, the log
\* copied and reset, every copied record replayed.
Rebuild(this) ==
    LET formConstructionCopy == this.formConstruction
        reset == [this EXCEPT !.form = NewModalFormData,
                              !.formConstruction = <<>>]
    IN  ReplayFrom(reset, formConstructionCopy, 1)

SubmitCall(this, response) ==
    [submitCallback |-> this.submitCallback, response |-> response]

Shown(player, this) == [player |-> player, form |-> this.form]

\* A continuation without the else: the submit callback runs after a rebuild too.
ShowThenSubmitsAlways(this, player, response) ==
    IF response.canceled
    THEN [this |-> this, invoked |-> <<>>, shown |-> <<>>]
    ELSE LET v == ValidateAll(this, response.formValues)
             rebuilt == Rebuild(v.this)
         IN  [this |-> IF v.hasError THEN rebuilt ELSE v.this,
              invoked |-> Append(v.calls, SubmitCall(v.this, response)),
              shown |-> IF v.hasError THEN <<Shown(player, rebuilt)>> ELSE <<>>]

\* A continuation that rebuilds the form and does not show it.
ShowThenNoReshow(this, player, response) ==
    IF response.canceled
    THEN [this |-> this, invoked |-> <<>>, shown |-> <<>>]
    ELSE LET v == ValidateAll(this, response.formValues)
         IN  IF v.hasError
             THEN [this |-> Rebuild(v.this), invoked |-> v.calls, shown |-> <<>>]
             ELSE [this |-> v.this,
                   invoked |-> Append(v.calls, SubmitCall(v.this, response)),
                   shown |-> <<>>]

\* A continuation whose submit branch is the else of the canceled test.
ShowThenSubmitsOnCancel(this, player, response) ==
    IF response.canceled
    THEN [this |-> this, invoked |-> <<SubmitCall(this, response)>>,
          shown |-> <<>>]
    ELSE LET v == ValidateAll(this, response.formValues)
         IN  IF v.hasError
             THEN LET rebuilt == Rebuild(v.this)
                  IN  [this |-> rebuilt, invoked |-> v.calls,
                       shown |-> <<Shown(player, rebuilt)>>]
             ELSE [this |-> v.this,
                   invoked |-> Append(v.calls, SubmitCall(v.this, response)),
                   shown |-> <<>>]

\* The continuation of this.form.show(player): what the object becomes, which
\* callbacks were invoked, and which shows were issued.
ShowThen(this, player, response) ==
    IF response.canceled
    THEN [this |-> this, invoked |-> <<>>, shown |-> <<>>]
    ELSE LET v == ValidateAll(this, response.formValues)
         IN  IF v.hasError
             THEN LET rebuilt == Rebuild(v.this)
                  IN  [this |-> rebuilt, invoked |-> v.calls,
                       shown |-> <<Shown(player, rebuilt)>>]
             ELSE [this |-> v.this,
                   invoked |-> Append(v.calls, SubmitCall(v.this, response)),
                   shown |-> <<>>]

----------------------------------------------------------------------------
(* The host: the values a shown modal form can be submitted with, one per *)
(* input control of the form that was shown, in the order they were added. *)

ControlsOf(shownForm) == SelectSeq(shownForm, LAMBDA c : c.op \in InputKinds)

AllValues == UNION {ValuesOf(kind) : kind \in InputKinds}

FormValuesOf(shownForm) ==
    LET controls == ControlsOf(shownForm)
    IN  {vs \in [1..Len(controls) -> AllValues] :
            \A i \in 1..Len(controls) : vs[i] \in ValuesOf(controls[i].op)}

----------------------------------------------------------------------------
(* State machine *)

Init ==
    /\ navigationStack = <<>>
    /\ wrapper = "none"
    /\ form = <<>>
    /\ callbacks = <<>>
    /\ formConstruction = <<>>
    /\ submitCallback = "noop"
    /\ pending = <<>>
    /\ original = <<>>
    /\ attempts = <<>>
    /\ invoked = <<>>
    /\ shows = 0

Composing == pending = <<>> /\ shows = 0 /\ Len(original) < MaxCalls

SetThis(this) ==
    /\ form' = this.form
    /\ formConstruction' = this.formConstruction
    /\ callbacks' = this.callbacks
    /\ submitCallback' = this.submitCallback

\* A constructor that does not push its callback.
NewModalNoPush ==
    /\ wrapper = "none"
    /\ wrapper' = "modal"
    /\ form' = NewModalFormData
    /\ formConstruction' = <<>>
    /\ callbacks' = <<>>
    /\ submitCallback' = "noop"
    /\ UNCHANGED <<navigationStack, pending, original, attempts, invoked, shows>>

\* new CallbackModalFormData(backCallback)
NewModal ==
    /\ wrapper = "none"
    /\ \E backCallback \in NavCallbacks :
           navigationStack' = Append(navigationStack, backCallback)
    /\ wrapper' = "modal"
    /\ form' = NewModalFormData
    /\ formConstruction' = <<>>
    /\ callbacks' = <<>>
    /\ submitCallback' = "noop"
    /\ UNCHANGED <<pending, original, attempts, invoked, shows>>

ModalTitle ==
    /\ wrapper = "modal" /\ Composing
    /\ LET data == <<Text("my modal form")>>
       IN  /\ SetThis(Title(This, data))
           /\ original' = Append(original, Record("title", data, Undefined, FALSE))
    /\ UNCHANGED <<navigationStack, wrapper, pending, attempts, invoked, shows>>

ModalInput ==
    /\ wrapper = "modal" /\ Composing
    /\ Len(callbacks) < MaxInputs
    /\ \E kind \in InputKinds : \E cb \in CallbacksOf(kind) :
           LET data == ArgsOf(kind, Len(original) + 1)
           IN  /\ SetThis(InputControl(This, kind, data, cb))
               /\ original' = Append(original, Record(kind, data, cb, TRUE))
    /\ UNCHANGED <<navigationStack, wrapper, pending, attempts, invoked, shows>>

ModalSubmitButton ==
    /\ wrapper = "modal" /\ Composing
    /\ \E cb \in SubmitCallbacks :
           LET data == <<Text("submit")>>
           IN  /\ SetThis(SubmitButton(This, data, cb))
               /\ original' = Append(original, Record("submitButton", data, cb, FALSE))
    /\ UNCHANGED <<navigationStack, wrapper, pending, attempts, invoked, shows>>

\* show(player): this.form.show(player)
HostShow ==
    /\ pending = <<>> /\ shows = 0
    /\ \E player \in Players :
           pending' = Append(pending, [player |-> player, form |-> form])
    /\ shows' = shows + 1
    /\ UNCHANGED <<navigationStack, wrapper, form, callbacks, formConstruction,
                   submitCallback, original, attempts, invoked>>

ModalShow == wrapper = "modal" /\ HostShow

ModalResolve(response) ==
    LET shown == Head(pending)
    IN  \E r \in {ShowThen(This, shown.player, response)} :
        /\ SetThis(r.this)
        /\ pending' = Tail(pending) \o r.shown
        /\ shows' = shows + Len(r.shown)
        /\ invoked' = invoked \o r.invoked
        /\ attempts' = Append(attempts, [player |-> shown.player,
                                         shown |-> shown.form,
                                         response |-> response])
        /\ UNCHANGED <<navigationStack, wrapper, original>>

\* the host resolves the promise with a submitted response
ModalRespond ==
    /\ wrapper = "modal" /\ pending # <<>> /\ Len(attempts) < MaxAttempts
    /\ \E values \in FormValuesOf(Head(pending).form) :
           ModalResolve([canceled |-> FALSE, formValues |-> values])

\* the host resolves the promise with a cancellation
ModalCancel ==
    /\ wrapper = "modal" /\ pending # <<>> /\ Len(attempts) < MaxAttempts
    /\ ModalResolve([canceled |-> TRUE])

----------------------------------------------------------------------------
(* CallbackActionFormData *)

NewActionFormData == <<>>

\* A button whose callback is put at the front of the list.
ActionButtonUnshift(this, text, iconPath, cb) ==
    [this EXCEPT !.callbacks = <<[callback |-> OrNoop(cb)]>> \o @,
                 !.form = Append(@, HostCall("button", <<text, iconPath>>))]

\* button(text, iconPath, callback)
ActionButtonCall(this, text, iconPath, cb) ==
    [this EXCEPT !.callbacks = Append(@, [callback |-> OrNoop(cb)]),
                 !.form = Append(@, HostCall("button", <<text, iconPath>>))]

\* The continuation of this.form.show(player) of an action form: the callbacks
\* it invokes.
ActionShowThen(this, result) ==
    IF ~result.canceled
    THEN <<[callback |-> this.callbacks[result.selection + 1].callback]>>
    ELSE <<>>

\* The host reports the index of a button of the form it showed.
SelectionsOf(shownForm) ==
    0 .. (Len(SelectSeq(shownForm, LAMBDA c : c.op = "button")) - 1)

\* new CallbackActionFormData(navigationCallback)
NewAction ==
    /\ wrapper = "none"
    /\ \E navigationCallback \in NavCallbacks :
           navigationStack' = Append(navigationStack, navigationCallback)
    /\ wrapper' = "action"
    /\ form' = NewActionFormData
    /\ UNCHANGED <<callbacks, formConstruction, submitCallback, pending,
                   original, attempts, invoked, shows>>

ActionTitle ==
    /\ wrapper = "action" /\ Composing
    /\ form' = Append(form, HostCall("title", <<Text("my action form")>>))
    /\ original' = Append(original, [op |-> "title"])
    /\ UNCHANGED <<navigationStack, wrapper, callbacks, formConstruction,
                   submitCallback, pending, attempts, invoked, shows>>

ActionBody ==
    /\ wrapper = "action" /\ Composing
    /\ form' = Append(form, HostCall("body", <<Text("click the button")>>))
    /\ original' = Append(original, [op |-> "body"])
    /\ UNCHANGED <<navigationStack, wrapper, callbacks, formConstruction,
                   submitCallback, pending, attempts, invoked, shows>>

ActionButton ==
    /\ wrapper = "action" /\ Composing
    /\ \E cb \in ButtonCallbacks :
           LET this == ActionButtonCall(This, Label("button", Len(original) + 1),
                                        "textures/ui/infobulb.png", cb)
           IN  /\ form' = this.form
               /\ callbacks' = this.callbacks
               /\ original' = Append(original, [op |-> "button", callback |-> cb])
    /\ UNCHANGED <<navigationStack, wrapper, formConstruction, submitCallback,
                   pending, attempts, invoked, shows>>

ActionShow == wrapper = "action" /\ HostShow

SelectionResolve(result, calls) ==
    /\ pending' = Tail(pending)
    /\ invoked' = invoked \o calls
    /\ attempts' = Append(attempts, [player |-> Head(pending).player,
                                     shown |-> Head(pending).form,
                                     response |-> result])
    /\ UNCHANGED <<navigationStack, wrapper, form, callbacks, formConstruction,
                   submitCallback, original, shows>>

ActionRespond ==
    /\ wrapper = "action" /\ pending # <<>>
    /\ \E selection \in SelectionsOf(Head(pending).form) :
           LET result == [canceled |-> FALSE, selection |-> selection]
           IN  SelectionResolve(result, ActionShowThen(This, result))

ActionCancel ==
    /\ wrapper = "action" /\ pending # <<>>
    /\ LET result == [canceled |-> TRUE]
       IN  SelectionResolve(result, ActionShowThen(This, result))

----------------------------------------------------------------------------
(* CallbackMessageFormData *)

NewMessageFormData == <<>>

\* button1(text, callback)
Button1(this, text, cb) ==
    [this EXCEPT !.callbacks = Append(@, [callback |-> OrNoop(cb)]),
                 !.form = Append(@, HostCall("button1", <<text>>))]

\* button2(text, callback)
Button2(this, text, cb) ==
    [this EXCEPT !.callbacks = Append(@, [callback |-> OrNoop(cb)]),
                 !.form = Append(@, HostCall("button2", <<text>>))]

\* The continuation of this.form.show(player) of a message form.  Reading
\* .callback of an entry the list does not have throws a TypeError.
MessageShowThen(this, result) ==
    IF ~result.canceled
    THEN IF result.selection + 1 <= Len(this.callbacks)
         THEN <<[callback |-> this.callbacks[result.selection + 1].callback]>>
         ELSE <<[threw |-> "TypeError"]>>
    ELSE <<>>

\* The host reports 0 when button1 is pressed and 1 when button2 is.
MessageSelections == {0, 1}

\* new CallbackMessageFormData(navigationCallback)
NewMessage ==
    /\ wrapper = "none"
    /\ \E navigationCallback \in NavCallbacks :
           navigationStack' = Append(navigationStack, navigationCallback)
    /\ wrapper' = "message"
    /\ form' = NewMessageFormData
    /\ UNCHANGED <<callbacks, formConstruction, submitCallback, pending,
                   original, attempts, invoked, shows>>

MessageTitle ==
    /\ wrapper = "message" /\ Composing
    /\ form' = Append(form, HostCall("title", <<Text("my message form")>>))
    /\ original' = Append(original, [op |-> "title"])
    /\ UNCHANGED <<navigationStack, wrapper, callbacks, formConstruction,
                   submitCallback, pending, attempts, invoked, shows>>

MessageBody ==
    /\ wrapper = "message" /\ Composing
    /\ form' = Append(form, HostCall("body", <<Text("are you sure?")>>))
    /\ original' = Append(original, [op |-> "body"])
    /\ UNCHANGED <<navigationStack, wrapper, callbacks, formConstruction,
                   submitCallback, pending, attempts, invoked, shows>>

MessageButton1 ==
    /\ wrapper = "message" /\ Composing
    /\ \E cb \in ButtonCallbacks :
           LET this == Button1(This, Text("yes"), cb)
           IN  /\ form' = this.form
               /\ callbacks' = this.callbacks
               /\ original' = Append(original, [op |-> "button1", callback |-> cb])
    /\ UNCHANGED <<navigationStack, wrapper, formConstruction, submitCallback,
                   pending, attempts, invoked, shows>>

MessageButton2 ==
    /\ wrapper = "message" /\ Composing
    /\ \E cb \in ButtonCallbacks :
           LET this == Button2(This, Text("no"), cb)
           IN  /\ form' = this.form
               /\ callbacks' = this.callbacks
               /\ original' = Append(original, [op |-> "button2", callback |-> cb])
    /\ UNCHANGED <<navigationStack, wrapper, formConstruction, submitCallback,
                   pending, attempts, invoked, shows>>

MessageShow == wrapper = "message" /\ HostShow

MessageRespond ==
    /\ wrapper = "message" /\ pending # <<>>
    /\ \E selection \in MessageSelections :
           LET result == [canceled |-> FALSE, selection |-> selection]
           IN  SelectionResolve(result, MessageShowThen(This, result))

MessageCancel ==
    /\ wrapper = "message" /\ pending # <<>>
    /\ LET result == [canceled |-> TRUE]
       IN  SelectionResolve(result, MessageShowThen(This, result))

----------------------------------------------------------------------------

Next ==
    \/ NewAction
    \/ ActionTitle
    \/ ActionBody
    \/ ActionButton
    \/ ActionShow
    \/ ActionRespond
    \/ ActionCancel
    \/ NewMessage
    \/ MessageTitle
    \/ MessageBody
    \/ MessageButton1
    \/ MessageButton2
    \/ MessageShow
    \/ MessageRespond
    \/ MessageCancel
    \/ NewModal
    \/ ModalTitle
    \/ ModalInput
    \/ ModalSubmitButton
    \/ ModalShow
    \/ ModalRespond
    \/ ModalCancel

Spec == Init /\ [][Next]_vars

-----------------------------------------------------------------------------
(* The modal wrapper with a host that resolves every show and a user who
   fails at most MaxAttempts - 1 times before cancelling or submitting values
   every callback accepts.  The wrapper itself counts nothing: the limit is
   on the responses, not in show. *)

\* values every validation callback of the form accepts
Accepted(values) ==
    \A i \in 1..Len(values) : RunCallback(callbacks[i].callback, values[i]) = Correct

\* the host resolves the promise with a submitted response
ModalRespondEventuallyValid ==
    /\ wrapper = "modal" /\ pending # <<>>
    /\ \E values \in FormValuesOf(Head(pending).form) :
           /\ Len(attempts) + 1 < MaxAttempts \/ Accepted(values)
           /\ ModalResolve([canceled |-> FALSE, formValues |-> values])

\* the host resolves the promise with a cancellation
ModalCancelAnytime ==
    /\ wrapper = "modal" /\ pending # <<>>
    /\ ModalResolve([canceled |-> TRUE])

LiveNext ==
    \/ NewModal
    \/ ModalTitle
    \/ ModalInput
    \/ ModalSubmitButton
    \/ ModalShow
    \/ ModalRespondEventuallyValid
    \/ ModalCancelAnytime

LiveSpec ==
    /\ Init /\ [][LiveNext]_vars
    /\ WF_vars(ModalCancelAnytime \/ ModalRespondEventuallyValid)

----------------------------------------------------------------------------
(* Back navigation.  The stack is one variable of the module, shared by every
   wrapper and every player.  The callers are menus in the style of the
   README: one menu per player, each screen a method that constructs an
   action wrapper with "show this screen again" as its navigation callback,
   adds its buttons and shows the form to the menu's player.  The main screen
   opens the settings screen; both have a button that calls navigateBack. *)

MaxShows == 5

\* The button callbacks of a screen, in the order the screen adds them.
ButtonsOf(screen) ==
    IF screen = "main" THEN <<"settings", "navigateBack">> ELSE <<"navigateBack">>

\* () => this.<screen>() of the menu of a player.  id numbers the wrapper that
\* pushed the entry and from the wrapper of the form the screen was opened
\* from (0: opened by the player, not from a form); both are history.
ReShow(screen, player, id, from) ==
    [screen |-> screen, player |-> player, id |-> id, from |-> from]

\* A navigateBack that leaves the previous screen on the stack.
navigateBackKeepsPrevious(stack) ==
    IF Len(stack) > 0
    THEN LET popped == SubSeq(stack, 1, Len(stack) - 1)
         IN  [stack |-> popped,
              invoked |-> IF popped = <<>> THEN <<>> ELSE <<popped[Len(popped)]>>]
    ELSE [stack |-> stack, invoked |-> <<>>]

\* A navigateBack that pops once and invokes what it popped.
navigateBackPopsOnce(stack) ==
    IF Len(stack) > 0
    THEN [stack |-> SubSeq(stack, 1, Len(stack) - 1),
          invoked |-> <<stack[Len(stack)]>>]
    ELSE [stack |-> stack, invoked |-> <<>>]

\* navigateBack(): the stack it leaves and the entries it invokes, before the
\* invoked entry runs.  pop() of an empty array returns undefined, which is
\* not invoked.
navigateBack(stack) ==
    IF Len(stack) > 0
    THEN LET popped == SubSeq(stack, 1, Len(stack) - 1)
             previousScreen == IF popped = <<>> THEN <<>>
                               ELSE <<popped[Len(popped)]>>
         IN  [stack |-> SubSeq(popped, 1, Len(popped) - Len(previousScreen)),
              invoked |-> previousScreen]
    ELSE [stack |-> stack, invoked |-> <<>>]

RECURSIVE AddButtons(_, _, _)
AddButtons(this, buttons, k) ==
    IF k > Len(buttons) THEN this
    ELSE AddButtons(ActionButtonCall(this, Text(buttons[k]),
                                     "textures/ui/infobulb.png", buttons[k]),
                    buttons, k + 1)

\* The wrapper a screen has built when it calls show.
ScreenForm(screen) ==
    AddButtons([form |-> NewActionFormData, callbacks |-> <<>>], ButtonsOf(screen), 1)

\* A screen method runs: the constructor pushes, the form is shown.
ShowScreen(entry, stack, others) ==
    LET this == ScreenForm(entry.screen)
    IN  /\ navigationStack' = Append(stack, entry)
        /\ pending' = Append(others, [player |-> entry.player, form |-> this.form,
                                      this |-> this, screen |-> entry.screen,
                                      id |-> entry.id, from |-> entry.from])
        /\ shows' = shows + 1

Without(seq, k) == SubSeq(seq, 1, k - 1) \o SubSeq(seq, k + 1, Len(seq))

\* What a resolved show leaves in the history.
Answered(shown, result) ==
    [player |-> shown.player, shown |-> shown.form, response |-> result,
     screen |-> shown.screen, id |-> shown.id, from |-> shown.from,
     stack |-> navigationStack]

\* a player with no form on screen opens the menu
NavOpen ==
    /\ shows < MaxShows
    /\ \E p \in Players :
          /\ \A k \in 1..Len(pending) : pending[k].player # p
          /\ ShowScreen(ReShow("main", p, shows + 1, 0), navigationStack, pending)
    /\ UNCHANGED <<wrapper, form, callbacks, formConstruction, submitCallback,
                   original, attempts, invoked>>

\* the host resolves a pending show with a selection: the continuation of
\* show calls the button's callback, which opens a screen or navigates back
NavRespond ==
    /\ shows < MaxShows
    /\ \E k \in 1..Len(pending) : \E selection \in SelectionsOf(pending[k].form) :
          LET shown == pending[k]
              result == [canceled |-> FALSE, selection |-> selection]
              calls == ActionShowThen(shown.this, result)
              back == navigateBack(navigationStack)
          IN  /\ attempts' = Append(attempts, Answered(shown, result))
              /\ IF calls[1].callback = "navigateBack"
                 THEN /\ invoked' = invoked \o calls
                                      \o [i \in 1..Len(back.invoked) |->
                                             [entry |-> back.invoked[i]]]
                      /\ IF back.invoked = <<>>
                         THEN /\ navigationStack' = back.stack
                              /\ pending' = Without(pending, k)
                              /\ shows' = shows
                         ELSE ShowScreen(ReShow(back.invoked[1].screen,
                                                back.invoked[1].player,
                                                shows + 1, back.invoked[1].from),
                                         back.stack, Without(pending, k))
                 ELSE /\ invoked' = invoked \o calls
                      /\ ShowScreen(ReShow(calls[1].callback, shown.player,
                                           shows + 1, shown.id),
                                    navigationStack, Without(pending, k))
    /\ UNCHANGED <<wrapper, form, callbacks, formConstruction, submitCallback,
                   original>>

\* the host resolves a pending show with a cancellation
NavCancel ==
    /\ \E k \in 1..Len(pending) :
          /\ attempts' = Append(attempts, Answered(pending[k], [canceled |-> TRUE]))
          /\ pending' = Without(pending, k)
    /\ UNCHANGED <<navigationStack, wrapper, form, callbacks, formConstruction,
                   submitCallback, original, invoked, shows>>

NavNext ==
    \/ NavOpen
    \/ NavRespond
    \/ NavCancel

NavSpec == Init /\ [][NavNext]_vars

-----------------------------------------------------------------------------
(* Vocabulary of the properties *)

Last(seq) == seq[Len(seq)]

\* The input controls the caller added, as passed, in the order of addition.
Registered == SelectSeq(original, LAMBDA r : r.isInputField)

\* What the callback registered for control i returns for an attempt's i-th value.
Returns(a, i) == RunCallback(OrDefault(Registered[i].callback), a.response.formValues[i])

Submitted(a) == ~a.response.canceled
Failed(a) ==
    Submitted(a) /\ \E i \in 1..Len(Registered) : Returns(a, i).type = "ModalDataError"
Passed(a) ==
    Submitted(a) /\ \A i \in 1..Len(Registered) : Returns(a, i).type = "ModalDataCorrect"

ValidateCalls(calls) == SelectSeq(calls, LAMBDA c : "value" \in DOMAIN c)
SubmitCalls(calls) == SelectSeq(calls, LAMBDA c : "submitCallback" \in DOMAIN c)
Suffix(seq, from) == SubSeq(seq, from + 1, Len(seq))

\* The step in which the host resolves a pending show.
Resolved == Len(attempts') = Len(attempts) + 1

\* The button calls the caller made on an action form, and the calls of one
\* button operation made on a message form, in the order made.
ButtonCalls == SelectSeq(original, LAMBDA c : c.op = "button")
CallsOf(op) == SelectSeq(original, LAMBDA c : c.op = op)

\* The button the host means by a selection of a message form.
PressedOp(selection) == IF selection = 0 THEN "button1" ELSE "button2"

\* The label and the initial value of input control i in a host form.
ShownLabel(hostForm, i) == ControlsOf(hostForm)[i].args[1]
DefaultOf(control) ==
    CASE control.op = "textField" -> control.args[3]
      [] control.op = "toggle"    -> control.args[2]
      [] control.op = "dropdown"  -> control.args[3]
      [] control.op = "slider"    -> control.args[5]

\* The value a control shows at first: its default, and without one the
\* host's own (an empty text field, a slider at its minimum).
InitialValue(control) ==
    IF DefaultOf(control) # Undefined THEN DefaultOf(control)
    ELSE IF control.op = "slider" THEN control.args[2] ELSE ""

----------------------------------------------------------------------------
(* C1: once the last response of a modal form is a submission on which every
   registered validation callback returns correct (after any number of failed
   attempts), the submit callback has been invoked exactly once in all, with
   that attempt's response, and no show is pending. *)
C1_SubmitOnceWithAttemptK ==
    (wrapper = "modal" /\ attempts # <<>> /\ Passed(Last(attempts))) =>
        /\ Len(SubmitCalls(invoked)) = 1
        /\ SubmitCalls(invoked)[1].response = Last(attempts).response
        /\ Last(invoked) = SubmitCalls(invoked)[1]
        /\ pending = <<>>
        /\ shows = Len(attempts)

C1_Witness ==
    /\ wrapper = "modal" /\ Len(attempts) = 2 /\ Passed(attempts[2])
    /\ Failed(attempts[1])
    /\ attempts[1].response # attempts[2].response
    /\ SubmitCalls(invoked) =
           <<[submitCallback |-> "onSubmit", response |-> attempts[2].response]>>

(* C2: a submission on which some registered validation callback returns an
   error invokes no submit callback and issues exactly one show, to the
   player who submitted, which is then the one pending show. *)
C2_FailedAttemptReshowsOnce ==
    [][(wrapper = "modal" /\ Resolved /\ Failed(Last(attempts'))) =>
          /\ SubmitCalls(invoked') = SubmitCalls(invoked)
          /\ shows' = shows + 1
          /\ Len(pending') = 1
          /\ pending'[1].player = Last(attempts').player
          /\ pending'[1].form = form']_vars

C2_Witness ==
    /\ wrapper = "modal" /\ Len(attempts) = 2 /\ Failed(attempts[2])
    /\ Len(pending) = 1 /\ pending[1].player = "p2" /\ shows = 3
    /\ SubmitCalls(invoked) = <<>>

(* C3: after a failed attempt, the label of every control that failed in it
   is, in the form shown again, the label originally passed for the control,
   a newline and the error returned in this attempt. *)
C3_ErrorLabelOnOriginal ==
    (wrapper = "modal" /\ attempts # <<>> /\ Failed(Last(attempts))) =>
        \A i \in 1..Len(Registered) :
            Returns(Last(attempts), i).type = "ModalDataError" =>
                ShownLabel(Head(pending).form, i) =
                    ErrorLabel(Registered[i].data[1],
                               Returns(Last(attempts), i).errorMessage)

(* C4: a control that failed in one attempt and passes in the next, while
   another control fails, is shown again with its original label. *)
C4_NoStaleError ==
    (wrapper = "modal" /\ Len(attempts) >= 2 /\ Failed(Last(attempts))) =>
        \A i \in 1..Len(Registered) :
            (/\ Returns(attempts[Len(attempts) - 1], i).type = "ModalDataError"
             /\ Returns(Last(attempts), i).type = "ModalDataCorrect") =>
                ShownLabel(Head(pending).form, i) = Registered[i].data[1]

(* C5: after a failed attempt, every control of the form shown again has as
   its initial value the value submitted for it in that attempt. *)
C5_RebuildKeepsEnteredValues ==
    (wrapper = "modal" /\ attempts # <<>> /\ Failed(Last(attempts))) =>
        \A i \in 1..Len(Registered) :
            InitialValue(ControlsOf(Head(pending).form)[i]) =
                Last(attempts).response.formValues[i]

(* C6: every submission of a modal form invokes, in the order of addition,
   the callback registered for each of the N controls the caller added, each
   once and with the value submitted for its control, whatever the earlier
   attempts returned. *)
C6_ValidatesEveryControl ==
    [][(wrapper = "modal" /\ Resolved /\ Submitted(Last(attempts'))) =>
          ValidateCalls(Suffix(invoked', Len(invoked))) =
              [i \in 1..Len(Registered) |->
                  [callback |-> OrDefault(Registered[i].callback),
                   value |-> Last(attempts').response.formValues[i]]]]_vars

C6_Witness ==
    /\ wrapper = "modal" /\ Len(attempts) = 2 /\ Submitted(attempts[2])
    /\ Len(Registered) = 2
    /\ Registered[1].callback # Undefined
    /\ Returns(attempts[1], 1).type = "ModalDataCorrect"
    /\ Returns(attempts[1], 2).type = "ModalDataError"
    /\ Len(ValidateCalls(invoked)) = 4
    /\ ValidateCalls(invoked)[3].callback = Registered[1].callback

(* C7: a modal wrapper holds as many validation callbacks as its log has
   records flagged as input fields, the k-th callback being that of the k-th
   such record. *)
C7_CallbacksMatchInputRecords ==
    wrapper = "modal" =>
        /\ Len(callbacks) = Len(InputFields(formConstruction))
        /\ \A k \in 1..Len(callbacks) :
               callbacks[k].callback =
                   OrDefault(formConstruction[InputFields(formConstruction)[k]].callback)

(* C8: an action form resolved with selection i invokes the callback passed
   to the i-th button call (the no-op when none was passed), once, and no
   other callback. *)
C8_ActionSelectionFiresItsCallback ==
    (wrapper = "action" /\ attempts # <<>> /\ Submitted(Last(attempts))) =>
        invoked = <<[callback |->
            OrNoop(ButtonCalls[Last(attempts).response.selection + 1].callback)]>>

C8_Witness ==
    /\ wrapper = "action" /\ attempts # <<>> /\ Submitted(Last(attempts))
    /\ Last(attempts).response.selection = 1
    /\ Len(ButtonCalls) = 2
    /\ ButtonCalls[1].callback = "cbA" /\ ButtonCalls[2].callback = "cbB"
    /\ invoked = <<[callback |-> "cbB"]>>

(* C9: a message form on which the caller configured both buttons, in any
   order and any number of times, invokes, when the host reports selection 0
   (button1), the callback most recently passed to button1, and when it
   reports selection 1 (button2), the one most recently passed to button2. *)
C9_MessageButtonFiresItsCallback ==
    (/\ wrapper = "message" /\ attempts # <<>> /\ Submitted(Last(attempts))
     /\ CallsOf("button1") # <<>> /\ CallsOf("button2") # <<>>) =>
        invoked = <<[callback |->
            OrNoop(Last(CallsOf(PressedOp(Last(attempts).response.selection))).callback)]>>

(* C10: a show resolved with canceled = true invokes no callback, issues no
   show, and leaves the navigation stack, the construction log and the rest
   of the wrapper as they were; only the resolved show stops pending. *)
C10_CancelDoesNothing ==
    [][(Resolved /\ Last(attempts').response.canceled) =>
          /\ invoked' = invoked
          /\ shows' = shows
          /\ pending' = Tail(pending)
          /\ UNCHANGED <<navigationStack, formConstruction, form, callbacks,
                         submitCallback>>]_vars

C10_Witness ==
    /\ wrapper = "modal" /\ Len(attempts) = 2 /\ Failed(attempts[1])
    /\ attempts[2].response.canceled
    /\ pending = <<>> /\ shows = 2
    /\ Len(ValidateCalls(invoked)) = Len(Registered)
    /\ SubmitCalls(invoked) = <<>>
    /\ navigationStack = <<"showMain">>

\* A step in which the continuation of a show called a button callback that
\* calls navigateBack, the entries that step invoked, and whether a resolved
\* show of the history was such a step.
NavigatedBack ==
    /\ Len(attempts') = Len(attempts) + 1
    /\ Len(invoked') > Len(invoked)
    /\ invoked'[Len(invoked) + 1] = [callback |-> "navigateBack"]
EntriesInvoked == Suffix(invoked', Len(invoked) + 1)
WasBack(a) ==
    /\ ~a.response.canceled
    /\ ButtonsOf(a.screen)[a.response.selection + 1] = "navigateBack"

\* The submitButton calls the caller made, in order.
SubmitButtonCalls == SelectSeq(original, LAMBDA r : r.kind = "submitButton")

(* C11: navigateBack on a stack of n >= 2 entries invokes entry n-1 and no
   other entry, exactly once; entries 1..n-2 stay where they were, in order,
   and everything above them afterwards was pushed by the invoked callback:
   entries n and n-1 are gone. *)
C11_BackInvokesPrevious ==
    [][(NavigatedBack /\ Len(navigationStack) >= 2) =>
          LET n == Len(navigationStack)
          IN  /\ EntriesInvoked = <<[entry |-> navigationStack[n - 1]]>>
              /\ Len(navigationStack') >= n - 2
              /\ SubSeq(navigationStack', 1, n - 2) = SubSeq(navigationStack, 1, n - 2)
              /\ \A k \in (n - 1)..Len(navigationStack') :
                     navigationStack'[k].id > shows]_vars

C11_Witness ==
    /\ attempts # <<>> /\ WasBack(Last(attempts))
    /\ Len(Last(attempts).stack) = 4
    /\ Len(navigationStack) = 3
    /\ SubSeq(navigationStack, 1, 2) = SubSeq(Last(attempts).stack, 1, 2)
    /\ Last(invoked) = [entry |-> Last(attempts).stack[3]]
    /\ navigationStack[3].id = shows

(* C12: navigateBack on an empty stack or on a stack of one entry invokes no
   entry, shows nothing and leaves the stack empty. *)
C12_BackAtRootInvokesNothing ==
    [][(NavigatedBack /\ Len(navigationStack) <= 1) =>
          /\ navigationStack' = <<>>
          /\ invoked' = Append(invoked, [callback |-> "navigateBack"])
          /\ shows' = shows
          /\ Len(pending') = Len(pending) - 1]_vars

C12_Witness ==
    /\ navigationStack = <<>>
    /\ \E j, k \in 1..Len(attempts) :
          /\ WasBack(attempts[j]) /\ Len(attempts[j].stack) = 1
          /\ WasBack(attempts[k]) /\ attempts[k].stack = <<>>

(* C13: in the form shown again after a failed attempt, the title, the submit
   text, every argument of a control other than its label, and the label of
   every control that did not fail in this attempt are what they were in the
   form shown for the attempt; the form has the same calls in the same order. *)
C13_RebuildChangesOnlyFailedLabels ==
    [][(wrapper = "modal" /\ Resolved /\ Failed(Last(attempts'))) =>
          LET before == Last(attempts').shown
              after == pending'[1].form
              inputAt(k) == Len(ControlsOf(SubSeq(before, 1, k)))
          IN  /\ Len(after) = Len(before)
              /\ \A k \in 1..Len(before) :
                    /\ after[k].op = before[k].op
                    /\ Tail(after[k].args) = Tail(before[k].args)
                    /\ (\/ before[k].op \notin InputKinds
                        \/ Returns(Last(attempts'), inputAt(k)).type
                               = "ModalDataCorrect") =>
                           after[k].args[1] = before[k].args[1]]_vars

C13_Witness ==
    /\ wrapper = "modal" /\ Len(attempts) = 2 /\ Failed(attempts[2])
    /\ Len(Registered) = 2 /\ Len(original) = 3
    /\ Returns(attempts[1], 1).type = "ModalDataError"
    /\ Returns(attempts[2], 1).type = "ModalDataCorrect"
    /\ Returns(attempts[2], 2).type = "ModalDataError"
    /\ pending[1].form[1].op = "title"
    /\ pending[1].form[2].args[1] = attempts[2].shown[2].args[1]
    /\ pending[1].form[3].args[1] # attempts[2].shown[3].args[1]

(* C14: the label of a control added without a validation callback is never
   changed, whatever is submitted and however often the form is rebuilt, and
   a form none of whose controls has a callback invokes the submit callback
   on its first submitted response and is not shown again. *)
C14_NoCallbackNeverBlocks ==
    wrapper = "modal" =>
        /\ \A i \in 1..Len(Registered) :
               Registered[i].callback = Undefined =>
                   formConstruction[InputFields(formConstruction)[i]].data[1]
                       = Registered[i].data[1]
        /\ (/\ \A i \in 1..Len(Registered) : Registered[i].callback = Undefined
            /\ attempts # <<>> /\ Submitted(attempts[1])) =>
               /\ Len(attempts) = 1 /\ pending = <<>> /\ shows = 1
               /\ Len(SubmitCalls(invoked)) = 1
               /\ SubmitCalls(invoked)[1].response = attempts[1].response

C14_Witness ==
    /\ wrapper = "modal" /\ Len(attempts) = 1 /\ Submitted(attempts[1])
    /\ Len(Registered) = 2
    /\ \A i \in 1..2 : Registered[i].callback = Undefined
    /\ attempts[1].response.formValues = <<"", "true">>
    /\ Len(SubmitCalls(invoked)) = 1 /\ pending = <<>>

(* C15: a rebuild leaves the construction log with the same length, the same
   kinds and input flags in the same order, and gives the fresh host form
   exactly one builder call per record, in the order of the records. *)
C15_RebuildPreservesShape ==
    [][(wrapper = "modal" /\ Resolved /\ Failed(Last(attempts'))) =>
          /\ Len(formConstruction') = Len(formConstruction)
          /\ \A k \in 1..Len(formConstruction) :
                /\ formConstruction'[k].kind = formConstruction[k].kind
                /\ formConstruction'[k].isInputField = formConstruction[k].isInputField
          /\ Len(form') = Len(formConstruction)
          /\ \A k \in 1..Len(form') :
                /\ form'[k].op = formConstruction[k].kind
                /\ form'[k].args = formConstruction'[k].data]_vars

C15_Witness ==
    /\ wrapper = "modal" /\ Len(attempts) = 2 /\ Failed(attempts[2])
    /\ Failed(attempts[1])
    /\ Len(formConstruction) = 3 /\ Len(form) = 3
    /\ formConstruction[1].kind = "textField"
    /\ formConstruction[2].kind = "submitButton"
    /\ formConstruction[3].kind = "toggle"

(* C16: with a host that resolves every show and a user who eventually cancels
   or submits values every callback accepts, a shown modal wrapper reaches a
   state with no show pending in which the submit callback has been invoked
   exactly once if the last response was submitted and valid, and not at all
   if it was a cancellation; and as long as the last response failed, the
   wrapper has a show pending: it never gives up after some number of
   failures. *)
C16_ShowLoopTerminates ==
    /\ (wrapper = "modal" /\ pending # <<>>) ~>
           (/\ pending = <<>> /\ attempts # <<>>
            /\ IF Submitted(Last(attempts))
               THEN Passed(Last(attempts)) /\ Len(SubmitCalls(invoked)) = 1
               ELSE Len(SubmitCalls(invoked)) = 0)
    /\ [](wrapper = "modal" /\ attempts # <<>> /\ Failed(Last(attempts))
             => pending # <<>>)

C16_Witness ==
    /\ wrapper = "modal" /\ pending = <<>> /\ Len(attempts) = MaxAttempts
    /\ \A k \in 1..(MaxAttempts - 1) : Failed(attempts[k])
    /\ Passed(attempts[MaxAttempts])
    /\ Len(Registered) = 2
    /\ Len(SubmitCalls(invoked)) = 1

(* C17: constructing a wrapper appends exactly the given callback to the end
   of the navigation stack, before any show of the wrapper; every other step
   of a wrapper (builder operation, show, response, rebuild and redisplay)
   leaves the stack as it is. *)
C17_OnlyConstructionPushes ==
    [][IF wrapper' # wrapper
       THEN /\ \E cb \in NavCallbacks : navigationStack' = Append(navigationStack, cb)
            /\ shows' = 0 /\ pending' = <<>>
       ELSE navigationStack' = navigationStack]_vars

C17_Witness ==
    /\ wrapper = "modal" /\ Len(attempts) = 2
    /\ Failed(attempts[1]) /\ Failed(attempts[2])
    /\ shows = 3 /\ navigationStack = <<"showMain">>

(* C18: when a callback of the form F displayed to a player calls
   navigateBack, the entry removed without being invoked is the one F's
   wrapper pushed, and if F was opened from another form, the one entry
   invoked is the one that form's wrapper pushed; this for one or two players
   opening, selecting, cancelling and navigating back in any order. *)
C18_BackTargetsOwnAndOpener ==
    [][NavigatedBack =>
          LET F == Last(attempts')
          IN  /\ navigationStack # <<>>
              /\ Last(navigationStack).id = F.id
              /\ F.from # 0 =>
                     /\ Len(EntriesInvoked) = 1
                     /\ EntriesInvoked[1].entry.id = F.from]_vars

(* C19: the submit callback of a modal wrapper is the one passed to the most
   recent submitButton call of the caller (the no-op when none was passed or
   no call was made), after any number of rebuilds, and every invocation of
   the submit callback is an invocation of it. *)
C19_SingleSubmitCallback ==
    wrapper = "modal" =>
        LET inEffect == IF SubmitButtonCalls = <<>> THEN "noop"
                        ELSE OrNoop(Last(SubmitButtonCalls).callback)
        IN  /\ submitCallback = inEffect
            /\ \A k \in 1..Len(SubmitCalls(invoked)) :
                   SubmitCalls(invoked)[k].submitCallback = inEffect

C19_Witness ==
    /\ wrapper = "modal" /\ Len(attempts) = 2
    /\ Failed(attempts[1]) /\ Passed(attempts[2])
    /\ Len(SubmitButtonCalls) = 2
    /\ SubmitButtonCalls[1].callback = Undefined
    /\ SubmitButtonCalls[2].callback = "onSubmit"
    /\ SubmitCalls(invoked)[1].submitCallback = "onSubmit"

(* C20: the first N validation callbacks a modal wrapper holds are, position
   by position, those registered for the N controls the caller added (the
   always-correct default where none was passed), and no step removes,
   replaces or reorders a callback the wrapper holds: a step only appends. *)
C20_CallbackPrefixStable ==
    /\ [](wrapper = "modal" =>
            /\ Len(callbacks) >= Len(Registered)
            /\ \A i \in 1..Len(Registered) :
                   callbacks[i].callback = OrDefault(Registered[i].callback))
    /\ [][wrapper = "modal" =>
            /\ Len(callbacks') >= Len(callbacks)
            /\ SubSeq(callbacks', 1, Len(callbacks)) = callbacks]_vars

C20_Witness ==
    /\ wrapper = "modal" /\ Len(attempts) = 2
    /\ Failed(attempts[1]) /\ Failed(attempts[2])
    /\ Len(Registered) = 2 /\ Len(callbacks) = 6
    /\ callbacks[1].callback = "range" /\ callbacks[2].callback = "mustBeOff"

====
